---- MODULE Spec2Model ----
(***************************************************************************)
(* Model of src/ca.js (class CA of IntrusionJS): the root authority that   *)
(* CA.create loads or generates under a base directory, and the leaf       *)
(* certificates generateServerCertificateKeys issues and saves.            *)
(*                                                                         *)
(* Text is a sequence of one-character strings, so that the operations on  *)
(* text (the '*' replacement, the IP pattern, the file names built by      *)
(* concatenation) are computed as the code computes them.  A key pair is   *)
(* identified by the call that generated it; a signature records the       *)
(* private key that made it.  A date is a calendar day.  Serial numbers     *)
(* take no part in the control flow and are left out of the certificate    *)
(* records.                                                                *)
(*                                                                         *)
(* The callbacks of node run one at a time: every action below is one      *)
(* synchronous run of code (a call, or one completion callback of an       *)
(* asynchronous operation).                                                *)
(***************************************************************************)
EXTENDS Integers, Sequences, FiniteSets, TLC

\* ------------------------------------------------------------------ bounds

\* number of calls of CA.create, overlapping or not, that one process makes on
\* the base directory
MaxOpens == 2
\* number of calls of generateServerCertificateKeys
MaxIssues == 2

\* number of times the process is started again on the same base directory
MaxRestarts == 1

\* length of the host names, and of the lists of them, that SpecSAN draws
MaxHostLen == 2
MaxHostCount == 2

Opens == 1..(MaxOpens + MaxRestarts)
Issues == 1..MaxIssues

\* ------------------------------------------------------------------ text

Digits == {"0", "1", "2", "3", "4", "5", "6", "7", "8", "9"}

\* the main hosts the issuance calls of the concurrent model draw from
HostCa == <<"c", "a">>
HostStar == <<"*", ".", "a">>
HostUnder == <<"_", ".", "a">>
Hosts == {HostCa, HostStar, HostUnder}
HostLists == {<<h>> : h \in Hosts} \cup {<<HostStar, HostCa>>}

\* the host names SpecSAN draws: every text over a few characters,
\* an IPv4 address and a dotted number that is not one
SanAlphabet == {"1", ".", "a", "*"}
SanHosts ==
    UNION {[1..k -> SanAlphabet] : k \in 0..MaxHostLen}
    \cup { <<"1", "9", "2", ".", "0", ".", "2", ".", "5">>,
           <<"9", "9", "9", ".", "1", ".", "1", ".", "1">> }
SanHostLists == UNION {[1..k -> SanHosts] : k \in 1..MaxHostCount}

\* a replacement without the g flag: the first '*' only
RECURSIVE replaceStar_firstOnly(_)
replaceStar_firstOnly(s) ==
    IF s = <<>> THEN <<>>
    ELSE IF Head(s) = "*" THEN <<"_">> \o Tail(s)
    ELSE <<Head(s)>> \o replaceStar_firstOnly(Tail(s))

\* ca.js:193  mainHost.replace(/\*/g, "_")
RECURSIVE replaceStar(_)
replaceStar(s) ==
    IF s = <<>> THEN <<>>
    ELSE <<IF Head(s) = "*" THEN "_" ELSE Head(s)>> \o replaceStar(Tail(s))

\* ------------------------------------------------------------------ files

DotPem == <<".", "p", "e", "m">>
DotKey == <<".", "k", "e", "y">>
DotPublicKey == <<".", "p", "u", "b", "l", "i", "c">> \o DotKey
DotPrivateKey == <<".", "p", "r", "i", "v", "a", "t", "e">> \o DotKey

Roles == {"cert", "private", "public"}

\* ca.js:140-142, 149-151  path.join(certsFolder, "ca.pem") and the two key files
RootFile(role) ==
    CASE role = "cert" -> [dir |-> "certs", name |-> <<"c", "a">> \o DotPem]
      [] role = "private" -> [dir |-> "keys", name |-> <<"c", "a">> \o DotPrivateKey]
      [] role = "public" -> [dir |-> "keys", name |-> <<"c", "a">> \o DotPublicKey]

\* ca.js:195-201  `${certsFolder}/${certFileName}.pem` and the two key files
LeafFile(certFileName, role) ==
    CASE role = "cert" -> [dir |-> "certs", name |-> certFileName \o DotPem]
      [] role = "private" -> [dir |-> "keys", name |-> certFileName \o DotKey]
      [] role = "public" -> [dir |-> "keys", name |-> certFileName \o DotPublicKey]

RootFiles == {RootFile(r) : r \in Roles}
AllFiles == RootFiles \cup {LeafFile(replaceStar(h), r) : h \in Hosts, r \in Roles}

\* the lists SpecNames draws: every host name of SanHosts as main host, alone or
\* followed by a second name, and the files they are saved in
NameHostLists == {<<h>> : h \in SanHosts} \cup {<<h, HostStar>> : h \in SanHosts}
NameFiles == RootFiles \cup {LeafFile(replaceStar(h), r) : h \in SanHosts, r \in Roles}

\* what a file holds: nothing, the remains of a failed write, or a PEM text
Absent == [type |-> "ABSENT"]
Truncated == [type |-> "TRUNCATED"]

\* ------------------------------------------------------------------ codec

Null == [null |-> TRUE]

\* pki.rsa.generateKeyPair: a fresh pair, named after the call that made it
KeyPair(by, n) ==
    [privateKey |-> [pair |-> [by |-> by, n |-> n], half |-> "private"],
     publicKey |-> [pair |-> [by |-> by, n |-> n], half |-> "public"]]

certificateToPem(cert) == [type |-> "CERTIFICATE", body |-> cert]
privateKeyToPem(key) == [type |-> "RSA PRIVATE KEY", body |-> key]
publicKeyToPem(key) == [type |-> "PUBLIC KEY", body |-> key]

\* pki.*FromPem throw on a text that is not a PEM message of the wanted type
Decodes(text, type) == text.type = type
fromPem(text) == text.body

\* ------------------------------------------------------------------ dates

\* the days new Date() can return: every day of a few years, one of them a
\* leap year
FirstYear == 2023
MaxYears == 3
Years == FirstYear..(FirstYear + MaxYears - 1)

isLeapYear(y) == (y % 4 = 0 /\ y % 100 # 0) \/ y % 400 = 0

daysInMonth(y, m) ==
    CASE m \in {4, 6, 9, 11} -> 30
      [] m = 2 -> IF isLeapYear(y) THEN 29 ELSE 28
      [] OTHER -> 31

Date(y, m, d) == [year |-> y, month |-> m, date |-> d]

Dates ==
    {t \in [year : Years, month : 1..12, date : 1..31] :
        t.date <= daysInMonth(t.year, t.month)}

\* the day the process runs on when the date is not what a scenario is about
StartDate == Date(FirstYear, 6, 15)

\* how a JavaScript Date settles a day of the month that is out of range (by
\* less than a month): day 0 is the last day of the month before, the day
\* after the last is the first of the next month
MakeDay(y, m, d) ==
    IF d < 1
    THEN IF m = 1 THEN Date(y - 1, 12, 31 + d)
         ELSE Date(y, m - 1, daysInMonth(y, m - 1) + d)
    ELSE IF d > daysInMonth(y, m)
    THEN IF m = 12 THEN Date(y + 1, 1, d - 31)
         ELSE Date(y, m + 1, d - daysInMonth(y, m))
    ELSE Date(y, m, d)

getDate(t) == t.date
getFullYear(t) == t.year
setDate(t, d) == MakeDay(t.year, t.month, d)
setFullYear(t, y) == MakeDay(y, t.month, t.date)

\* ca.js:126-129, 171-174  notBefore = new Date(), set to the day before;
\* notAfter = new Date(), set to the year after the year of notBefore
Validity(now) ==
    LET notBefore == setDate(now, getDate(now) - 1)
        notAfter == setFullYear(now, getFullYear(notBefore) + 1)
    IN [notBefore |-> notBefore, notAfter |-> notAfter]

\* ------------------------------------------------------------------ names

Attr(name, value) == [name |-> name, value |-> value]

\* ca.js:9-16
CA_ATTRIBUTES ==
    << Attr("commonName", <<"IntrusionJSCA">>),
       Attr("countryName", <<"Internet">>),
       Attr("ST", <<"Internet">>),
       Attr("localityName", <<"Internet">>),
       Attr("organizationName", <<"IntrusionJS Interception Proxy">>),
       Attr("OU", <<"CA">>) >>

\* ca.js:49-55
SERVER_ATTRIBUTES ==
    << Attr("countryName", <<"Internet">>),
       Attr("ST", <<"Internet">>),
       Attr("localityName", <<"Internet">>),
       Attr("organizationName", <<"IntrusionJS Interception Proxy">>),
       Attr("OU", <<"IntrusionJS Interception Proxy Server Certificate">>) >>

\* ca.js:176  [{ name: "commonName", value: mainHost }, ...SERVER_ATTRIBUTES]
attrsServer(mainHost) == <<Attr("commonName", mainHost)>> \o SERVER_ATTRIBUTES

\* ca.js:183  host.match(/^[\d.]+$/)
RECURSIVE allDigitsOrDots(_)
allDigitsOrDots(s) ==
    s = <<>> \/ (Head(s) \in Digits \cup {"."} /\ allDigitsOrDots(Tail(s)))

matchesIPPattern(host) == host # <<>> /\ allDigitsOrDots(host)

\* ca.js:183  hosts.map(host => ... ? { type: 7, ip: host } : { type: 2, value: host })
altNames(hosts) ==
    [n \in 1..Len(hosts) |->
        IF matchesIPPattern(hosts[n])
        THEN [type |-> 7, ip |-> hosts[n]]
        ELSE [type |-> 2, value |-> hosts[n]]]

\* ca.js:123-134  the self-signed root certificate
RootCertificate(keys, now) ==
    [publicKey |-> keys.publicKey,
     validity |-> Validity(now),
     subject |-> CA_ATTRIBUTES,
     issuer |-> CA_ATTRIBUTES,
     extensions |-> [cA |-> TRUE, altNames |-> <<>>],
     signedBy |-> keys.privateKey.pair]

\* ca.js:167-187  the leaf certificate, signed with this.CAkeys.privateKey
ServerCertificate(hosts, keysServer, CAcert, CAkeys, now) ==
    [publicKey |-> keysServer.publicKey,
     validity |-> Validity(now),
     subject |-> attrsServer(hosts[1]),
     issuer |-> CAcert.issuer,
     extensions |-> [cA |-> FALSE, altNames |-> altNames(hosts)],
     signedBy |-> CAkeys.privateKey.pair]

\* ------------------------------------------------------------------ state

VARIABLES
    disk,         \* the files under the base directory: file -> what it holds
    opens,        \* the calls of CA.create, by order of call
    issues,       \* the calls of generateServerCertificateKeys, by order of call
    run,          \* the number of the running process: 0, then 1 more per restart
    clock,        \* the day new Date() returns
    history       \* per issuance, for the claims: alone (no issuance for its main
                  \* host was in flight when it was called) and undisturbed (no other
                  \* writer of its files was in flight at any time of its own flight)

vars == <<disk, opens, issues, run, clock, history>>

NoneOf == [r \in Roles |-> "none"]
PendingAll == [r \in Roles |-> "pending"]

\* ca.js:82-88  the constructor; callback: "none" until create's callback runs
NewCA ==
    [pc |-> "idle", sawRoot |-> FALSE, CAcert |-> Null, CAkeys |-> Null,
     rd |-> NoneOf, results |-> [r \in Roles |-> Absent], wr |-> NoneOf,
     keygens |-> 0, callback |-> "none"]

NoIssue ==
    [pc |-> "idle", ca |-> 0, isArray |-> TRUE, mainHost |-> <<>>,
     hosts |-> <<>>, cert |-> Null, keys |-> Null,
     certFileName |-> <<>>, wr |-> NoneOf, keygens |-> 0, signings |-> 0,
     callbacks |-> 0, cbArgs |-> <<>>]

NoHistory == [alone |-> FALSE, undisturbed |-> FALSE]

Init ==
    /\ disk = [f \in AllFiles |-> Absent]
    /\ opens = [p \in Opens |-> NewCA]
    /\ issues = [i \in Issues |-> NoIssue]
    /\ run = 0
    /\ clock = StartDate
    /\ history = [i \in Issues |-> NoHistory]

\* ------------------------------------------------------------------ file system

\* the files an issuance writes
IssueFiles(i) == {LeafFile(issues[i].certFileName, r) : r \in Roles}

\* a write of file f has been started and has not completed
PendingOn(f) ==
    \/ \E p \in Opens, r \in Roles : opens[p].wr[r] = "pending" /\ RootFile(r) = f
    \/ \E i \in Issues, r \in Roles :
          issues[i].wr[r] = "pending" /\ LeafFile(issues[i].certFileName, r) = f

\* fs.existsSync: a file exists when it holds something; a write in flight may
\* already have created it
existsSync(f) == {disk[f] # Absent} \cup (IF PendingOn(f) THEN {TRUE} ELSE {})

\* fs.readFile: the content, or the partial content of a file being written
readFile(f) == {disk[f]} \cup (IF PendingOn(f) THEN {Truncated} ELSE {})

\* fs.writeFile failing: the file is left as it was, or truncated
failedWrite(f) == {disk[f], Truncated}

\* ------------------------------------------------------------------ CA.create

\* ca.js:102  the branch taken on fs.existsSync(path.join(ca.certsFolder, "ca.pem"))
takesLoadPath(exists) == exists

\* ca.js:90-109  create: the folders are made, then the root is loaded or generated.
\* The calls are numbered in the order they are made.
Create(p) ==
    /\ opens[p].pc = "idle"
    /\ \A q \in Opens : q < p => opens[q].pc # "idle"
    /\ \E exists \in existsSync(RootFile("cert")) :
          opens' = [opens EXCEPT ![p] =
              IF takesLoadPath(exists)
              THEN [@ EXCEPT !.pc = "loadCA", !.sawRoot = exists, !.rd = PendingAll]
              ELSE [@ EXCEPT !.pc = "generateKeyPair", !.sawRoot = exists]]
    /\ UNCHANGED <<disk, issues, run, history, clock>>

\* ca.js:152-161  the final callback of async.auto once the three reads succeeded:
\* a text that does not decode makes pki.*FromPem throw inside the callback, so
\* the exception leaves through the read's completion and create's callback is
\* not called
loadCallback(ca) ==
    IF ~Decodes(ca.results["cert"], "CERTIFICATE")
    THEN [ca EXCEPT !.pc = "threw"]
    ELSE IF \/ ~Decodes(ca.results["private"], "RSA PRIVATE KEY")
            \/ ~Decodes(ca.results["public"], "PUBLIC KEY")
         THEN [ca EXCEPT !.pc = "threw", !.CAcert = fromPem(ca.results["cert"])]
         ELSE [ca EXCEPT !.pc = "loaded",
                         !.CAcert = fromPem(ca.results["cert"]),
                         !.CAkeys = [privateKey |-> fromPem(ca.results["private"]),
                                     publicKey |-> fromPem(ca.results["public"])],
                         !.callback = "ok"]

\* a loadCA that generates a new root when a root file cannot be read
autoCallback_regenerates(ca) ==
    IF ca.callback # "none" \/ ca.pc # "loadCA" THEN ca
    ELSE IF \E r \in Roles : ca.rd[r] = "err" THEN [ca EXCEPT !.pc = "generateKeyPair"]
    ELSE IF \A r \in Roles : ca.rd[r] = "ok" THEN loadCallback(ca)
    ELSE ca

\* ca.js:148-153  async.auto: the first read error goes to the callback at once,
\* later completions are ignored; without error the callback runs after the last
autoCallback(ca) ==
    IF ca.callback # "none" \/ ca.pc # "loadCA" THEN ca
    ELSE IF \E r \in Roles : ca.rd[r] = "err" THEN [ca EXCEPT !.callback = "err"]
    ELSE IF \A r \in Roles : ca.rd[r] = "ok" THEN loadCallback(ca)
    ELSE ca

\* ca.js:149-151  one fs.readFile of loadCA completes
ReadDone(p, r) ==
    /\ opens[p].rd[r] = "pending"
    /\ \E text \in readFile(RootFile(r)) :
          opens' = [opens EXCEPT ![p] =
              autoCallback(
                  IF text = Absent
                  THEN [@ EXCEPT !.rd[r] = "err"]
                  ELSE [@ EXCEPT !.rd[r] = "ok", !.results[r] = text])]
    /\ UNCHANGED <<disk, issues, run, history, clock>>

\* root writes whose errors are only logged, as the leaf writes' are
parallelCallback_logsErrors(callback, wr) ==
    IF callback # "none" THEN callback
    ELSE IF \A r \in Roles : wr[r] \in {"ok", "fail"} THEN "ok"
    ELSE "none"

\* a callback that does not wait for the three writes
parallelCallback_firstDone(callback, wr) ==
    IF callback # "none" THEN callback
    ELSE IF \E r \in Roles : wr[r] = "fail" THEN "err"
    ELSE IF \E r \in Roles : wr[r] = "ok" THEN "ok"
    ELSE "none"

\* ca.js:139-143  async.parallel: the first write error goes to the callback at
\* once, later completions are ignored; without error it runs after the last
parallelCallback(callback, wr) ==
    IF callback # "none" THEN callback
    ELSE IF \E r \in Roles : wr[r] = "fail" THEN "err"
    ELSE IF \A r \in Roles : wr[r] = "ok" THEN "ok"
    ELSE "none"

\* an issuance some of whose writes have not completed
InFlight(i) == \E r \in Roles : issues[i].wr[r] = "pending"

\* an issuance in flight whose files a newly started writer of files F also writes
Disturbs(i, F) == InFlight(i) /\ IssueFiles(i) \cap F # {}

\* ca.js:120-143  generateKeyPair succeeded: the certificate is built and signed,
\* the authority is set, the three writes are started
KeyGenDone(p) ==
    /\ opens[p].pc = "generateKeyPair"
    /\ LET keys == KeyPair("generateCA", p) IN
          opens' = [opens EXCEPT ![p] =
              [@ EXCEPT !.pc = "generateCA", !.keygens = @ + 1,
                        !.CAcert = RootCertificate(keys, clock), !.CAkeys = keys,
                        !.wr = PendingAll]]
    /\ history' = [i \in Issues |->
          [history[i] EXCEPT !.undisturbed = @ /\ ~Disturbs(i, RootFiles)]]
    /\ UNCHANGED <<disk, issues, run, clock>>

\* ca.js:121  generateKeyPair failed
KeyGenErr(p) ==
    /\ opens[p].pc = "generateKeyPair"
    /\ opens' = [opens EXCEPT ![p] = [@ EXCEPT !.pc = "failed", !.callback = "err"]]
    /\ UNCHANGED <<disk, issues, run, history, clock>>

\* what generateCA writes to the root file of a role
rootText(ca, r) ==
    CASE r = "cert" -> certificateToPem(ca.CAcert)
      [] r = "private" -> privateKeyToPem(ca.CAkeys.privateKey)
      [] r = "public" -> publicKeyToPem(ca.CAkeys.publicKey)

\* ca.js:140-143  one fs.writeFile of generateCA succeeds
RootWriteOk(p, r) ==
    /\ opens[p].wr[r] = "pending"
    /\ disk' = [disk EXCEPT ![RootFile(r)] = rootText(opens[p], r)]
    /\ LET wr == [opens[p].wr EXCEPT ![r] = "ok"] IN
          opens' = [opens EXCEPT ![p] =
              [@ EXCEPT !.wr = wr, !.callback = parallelCallback(@, wr)]]
    /\ UNCHANGED <<issues, run, history, clock>>

\* ca.js:140-143  one fs.writeFile of generateCA fails
RootWriteFail(p, r) ==
    /\ opens[p].wr[r] = "pending"
    /\ \E left \in failedWrite(RootFile(r)) :
          disk' = [disk EXCEPT ![RootFile(r)] = left]
    /\ LET wr == [opens[p].wr EXCEPT ![r] = "fail"] IN
          opens' = [opens EXCEPT ![p] =
              [@ EXCEPT !.wr = wr, !.callback = parallelCallback(@, wr)]]
    /\ UNCHANGED <<issues, run, history, clock>>

\* ------------------------------------------------------------------ issuance

\* an issuance that saves the public key text in the private key file as well
leafText_publicKeyTwice(is, r) ==
    CASE r = "cert" -> certificateToPem(is.cert)
      [] r = "private" -> publicKeyToPem(is.keys.publicKey)
      [] r = "public" -> publicKeyToPem(is.keys.publicKey)

\* ca.js:193-203  what generateServerCertificateKeys writes to the file of a role
leafText(is, r) ==
    CASE r = "cert" -> certificateToPem(is.cert)
      [] r = "private" -> privateKeyToPem(is.keys.privateKey)
      [] r = "public" -> publicKeyToPem(is.keys.publicKey)

\* a callback handed the public key text in place of the private key text
cbArguments_publicKey(cert, keys) ==
    <<certificateToPem(cert), publicKeyToPem(keys.publicKey)>>

\* ca.js:205  cb(certPem, keyPrivatePem)
cbArguments(cert, keys) == <<certificateToPem(cert), privateKeyToPem(keys.privateKey)>>

\* ca.js:164-206  generateServerCertificateKeys(hosts, cb) on the authority that
\* create call o delivered without error: one synchronous run that generates the
\* key pair, builds and signs the certificate, starts the three writes and calls cb
Issue(i, o, hosts) ==
    /\ issues[i].pc = "idle"
    /\ \A j \in Issues : j < i => issues[j].pc # "idle"
    /\ opens[o].callback = "ok"
    /\ opens[o].pc # "exited"
    /\ LET keysServer == KeyPair("generateServerCertificateKeys", <<run, i>>)
           certServer == ServerCertificate(hosts, keysServer,
                                           opens[o].CAcert, opens[o].CAkeys, clock)
           certFileName == replaceStar(hosts[1])
           files == {LeafFile(certFileName, r) : r \in Roles}
       IN /\ issues' = [issues EXCEPT ![i] =
                 [pc |-> "called", ca |-> o, isArray |-> TRUE, mainHost |-> hosts[1],
                  hosts |-> hosts,
                  cert |-> certServer, keys |-> keysServer,
                  certFileName |-> certFileName, wr |-> PendingAll,
                  keygens |-> 1, signings |-> 1,
                  callbacks |-> 1, cbArgs |-> cbArguments(certServer, keysServer)]]
          /\ history' = [j \in Issues |->
                 IF j = i
                 THEN [alone |-> \A k \in Issues : issues[k].hosts # <<>> =>
                                    ~(issues[k].hosts[1] = hosts[1] /\ InFlight(k)),
                       undisturbed |-> \A f \in files : ~PendingOn(f)]
                 ELSE [history[j] EXCEPT !.undisturbed = @ /\ ~Disturbs(j, files)]]
    /\ UNCHANGED <<disk, opens, run, clock>>

\* ca.js:164-183  generateServerCertificateKeys(hosts, cb) with hosts a plain
\* string: Array.isArray(hosts) is false and mainHost is the string; the key pair
\* is generated; then hosts.map, which a string does not have, throws a
\* TypeError before the certificate is signed, so that nothing is written and cb
\* is not called
IssueString(i, o, host) ==
    /\ issues[i].pc = "idle"
    /\ \A j \in Issues : j < i => issues[j].pc # "idle"
    /\ opens[o].callback = "ok"
    /\ opens[o].pc # "exited"
    /\ issues' = [issues EXCEPT ![i] =
          [NoIssue EXCEPT !.pc = "threw", !.ca = o, !.isArray = FALSE,
                          !.mainHost = host, !.keygens = 1,
                          !.keys = KeyPair("generateServerCertificateKeys", <<run, i>>)]]
    /\ UNCHANGED <<disk, opens, run, history, clock>>

\* ca.js:195-203  one fs.writeFile of an issuance succeeds
LeafWriteOk(i, r) ==
    /\ issues[i].wr[r] = "pending"
    /\ disk' = [disk EXCEPT ![LeafFile(issues[i].certFileName, r)] = leafText(issues[i], r)]
    /\ issues' = [issues EXCEPT ![i].wr[r] = "ok"]
    /\ UNCHANGED <<opens, run, history, clock>>

\* ca.js:195-203  one fs.writeFile of an issuance fails: the error is logged
LeafWriteFail(i, r) ==
    /\ issues[i].wr[r] = "pending"
    /\ \E left \in failedWrite(LeafFile(issues[i].certFileName, r)) :
          disk' = [disk EXCEPT ![LeafFile(issues[i].certFileName, r)] = left]
    /\ issues' = [issues EXCEPT ![i].wr[r] = "fail"]
    /\ UNCHANGED <<opens, run, history, clock>>

\* ------------------------------------------------------------------ restart

\* a create call has run to its end: nothing of it is still in flight
Settled(p) ==
    /\ opens[p].pc \in {"loadCA", "loaded", "generateCA", "failed", "threw"}
    /\ opens[p].pc = "loadCA" => opens[p].callback = "err"
    /\ \A r \in Roles : opens[p].rd[r] # "pending" /\ opens[p].wr[r] # "pending"

Quiet ==
    /\ \A p \in Opens : opens[p].pc \in {"idle", "exited"} \/ Settled(p)
    /\ \A i \in Issues : ~InFlight(i)

\* The process ends with nothing in flight and is started again on the same base
\* directory: the files stay, the objects in memory are gone.  What each create
\* call delivered is kept as history.
Restart ==
    /\ run < MaxRestarts
    /\ Quiet
    /\ \E p \in Opens : opens[p].pc \notin {"idle", "exited"}
    /\ run' = run + 1
    /\ opens' = [p \in Opens |->
          IF opens[p].pc = "idle" THEN opens[p]
          ELSE [NewCA EXCEPT !.pc = "exited", !.sawRoot = opens[p].sawRoot,
                             !.keygens = opens[p].keygens,
                             !.callback = opens[p].callback,
                             !.CAcert = opens[p].CAcert, !.CAkeys = opens[p].CAkeys]]
    /\ issues' = [i \in Issues |-> NoIssue]
    /\ history' = [i \in Issues |-> NoHistory]
    /\ UNCHANGED <<disk, clock>>

\* ------------------------------------------------------------------ specifications

OpenStep(p) ==
    \/ \E r \in Roles : ReadDone(p, r)
    \/ KeyGenDone(p)
    \/ KeyGenErr(p)
    \/ \E r \in Roles : RootWriteOk(p, r)
    \/ \E r \in Roles : RootWriteFail(p, r)

IssueStep(i) ==
    \/ \E o \in Opens, hosts \in HostLists : Issue(i, o, hosts)
    \/ \E r \in Roles : LeafWriteOk(i, r)
    \/ \E r \in Roles : LeafWriteFail(i, r)

\* the whole program: overlapping create calls and issuances, and restarts
Next ==
    \/ \E p \in Opens : Create(p) \/ OpenStep(p)
    \/ \E i \in Issues : IssueStep(i)
    \/ \E i \in Issues, o \in Opens, host \in Hosts : IssueString(i, o, host)
    \/ Restart

Spec == Init /\ [][Next]_vars

\* overlapping create calls on one base directory, no issuance
NextRoot == \E p \in 1..MaxOpens : Create(p) \/ OpenStep(p)

SpecRoot == Init /\ [][NextRoot]_vars

\* one create call at startup on an empty base directory, then overlapping
\* issuances
NextLeaf ==
    \/ Create(1)
    \/ KeyGenDone(1)
    \/ KeyGenErr(1)
    \/ \E r \in Roles : RootWriteOk(1, r)
    \/ \E r \in Roles : RootWriteFail(1, r)
    \/ \E i \in Issues : IssueStep(i)

SpecLeaf == Init /\ [][NextLeaf]_vars

\* the process as the proxy runs it, again and again on one base directory: one
\* create call at startup, then one issuance
NextRestart ==
    \/ \E p \in Opens :
          \/ (\A q \in Opens : opens[q].pc \in {"idle", "exited"}) /\ Create(p)
          \/ OpenStep(p)
    \/ IssueStep(1)
    \/ Restart

SpecRestart == Init /\ [][NextRestart]_vars

\* one create call at startup on an empty base directory, then one issuance for
\* a list of host names
NextSAN ==
    \/ Create(1)
    \/ KeyGenDone(1)
    \/ \E r \in Roles : RootWriteOk(1, r)
    \/ \E hosts \in SanHostLists : Issue(1, 1, hosts)

SpecSAN == Init /\ [][NextSAN]_vars

\* one create call on an empty base directory and one issuance, on any day
InitDate ==
    /\ disk = [f \in AllFiles |-> Absent]
    /\ opens = [p \in Opens |-> NewCA]
    /\ issues = [i \in Issues |-> NoIssue]
    /\ run = 0
    /\ clock \in Dates
    /\ history = [i \in Issues |-> NoHistory]

NextDate ==
    \/ Create(1)
    \/ KeyGenDone(1)
    \/ \E r \in Roles : RootWriteOk(1, r)
    \/ \E hosts \in HostLists : Issue(1, 1, hosts)

SpecDate == InitDate /\ [][NextDate]_vars

\* one create call on an empty base directory, then one issuance for a list
\* whose main host is any short text, and its three writes
InitNames ==
    /\ disk = [f \in NameFiles |-> Absent]
    /\ opens = [p \in Opens |-> NewCA]
    /\ issues = [i \in Issues |-> NoIssue]
    /\ run = 0
    /\ clock = StartDate
    /\ history = [i \in Issues |-> NoHistory]

NextNames ==
    \/ Create(1)
    \/ KeyGenDone(1)
    \/ \E r \in Roles : RootWriteOk(1, r)
    \/ \E hosts \in NameHostLists : Issue(1, 1, hosts)
    \/ \E r \in Roles : LeafWriteOk(1, r)
    \/ \E r \in Roles : LeafWriteFail(1, r)

SpecNames == InitNames /\ [][NextNames]_vars

\* overlapping create calls at the first start on an empty base directory, then
\* one create call at each later start; no issuance
NextRace ==
    \/ \E p \in Opens :
          \/ run = 0 /\ p <= MaxOpens /\ Create(p)
          \/ run > 0 /\ (\A q \in Opens : opens[q].pc \in {"idle", "exited"}) /\ Create(p)
          \/ OpenStep(p)
    \/ Restart

SpecRace == Init /\ [][NextRace]_vars

\* one create call on an empty base directory, then issuances called with a
\* list of host names or with one host name as a plain string
NextString ==
    \/ Create(1)
    \/ KeyGenDone(1)
    \/ \E r \in Roles : RootWriteOk(1, r)
    \/ \E i \in Issues, hosts \in HostLists : Issue(i, 1, hosts)
    \/ \E i \in Issues, host \in Hosts : IssueString(i, 1, host)
    \/ \E i \in Issues, r \in Roles : LeafWriteOk(i, r)
    \/ \E i \in Issues, r \in Roles : LeafWriteFail(i, r)

SpecString == Init /\ [][NextString]_vars

\* ------------------------------------------------------------------ claims

\* what a create call delivered matches what an earlier one delivered
SameRoot(p, q) ==
    /\ opens[q].CAcert.subject = opens[p].CAcert.subject
    /\ opens[q].CAcert.issuer = opens[p].CAcert.issuer
    /\ opens[q].CAcert.publicKey = opens[p].CAcert.publicKey

\* a create call has ended, in this process or in an earlier one
Ended(p) == Settled(p) \/ opens[p].pc = "exited"

\* C1: root idempotence.  Once a create call on the base directory has completed
\* without error, every later create call (here: made after a restart) takes the
\* load path, generating no key pair, and delivers without error a root
\* certificate with the subject, issuer and public key the first one delivered.
C1_RootIdempotence ==
    \A p, q \in Opens :
        (p < q /\ opens[p].callback = "ok" /\ Ended(q)) =>
            /\ opens[q].sawRoot
            /\ opens[q].keygens = 0
            /\ opens[q].callback = "ok"
            /\ SameRoot(p, q)

\* C2: a create call that found certs/ca.pem when it checked generates no key
\* pair and starts no write, and no step of it changes a file, whatever the two
\* key files hold.
C2_LoadPathLeavesRootFiles ==
    [][\A p \in Opens :
          (opens'[p].sawRoot /\ opens'[p] # opens[p]) =>
              /\ disk' = disk
              /\ opens'[p].keygens = 0
              /\ opens'[p].wr = NoneOf]_vars

\* a create call on the load path has delivered the authority
C2_Witness == \E p \in Opens : opens[p].sawRoot /\ opens[p].pc = "loaded"

\* the three reads of a loadCA succeeded and one of the texts does not decode
DecodeFailed(p) ==
    /\ opens[p].sawRoot
    /\ \A r \in Roles : opens[p].rd[r] = "ok"
    /\ \/ ~Decodes(opens[p].results["cert"], "CERTIFICATE")
       \/ ~Decodes(opens[p].results["private"], "RSA PRIVATE KEY")
       \/ ~Decodes(opens[p].results["public"], "PUBLIC KEY")

\* C3: when the root certificate file exists and the certificate or a root key
\* file does not decode, create's callback is called with an error.
C3_DecodeFailureReported ==
    \A p \in Opens : DecodeFailed(p) => opens[p].callback = "err"

\* C4: on the creation path, when one of the three root writes has failed,
\* create's callback has been called with an error, whichever writes fail and in
\* whatever order they complete.
C4_RootWriteFailureReported ==
    \A p \in Opens :
        (\E r \in Roles : opens[p].wr[r] = "fail") => opens[p].callback = "err"

\* the key file write failed between two writes that succeeded
C4_Witness ==
    \E p \in Opens :
        /\ opens[p].wr = [cert |-> "ok", private |-> "fail", public |-> "ok"]
        /\ opens[p].callback = "err"

\* C5: on the creation path, create's callback is called without error only
\* when the three root writes have all completed with success.
C5_SuccessAfterAllWrites ==
    \A p \in Opens :
        (opens[p].keygens = 1 /\ opens[p].callback = "ok") =>
            \A r \in Roles : opens[p].wr[r] = "ok"

\* a create call on the creation path has reported success
C5_Witness ==
    \E p \in Opens : opens[p].pc = "generateCA" /\ opens[p].callback = "ok"

\* an issuance has been called
Called(i) == issues[i].pc = "called"

\* the three writes of an issuance have succeeded
AllOk(i) == \A r \in Roles : issues[i].wr[r] = "ok"

\* the three files of an issuance hold its certificate and its two keys
OwnFiles(i) ==
    LET name == replaceStar(issues[i].hosts[1]) IN
    /\ disk[[dir |-> "certs", name |-> name \o DotPem]] =
          certificateToPem(issues[i].cert)
    /\ disk[[dir |-> "keys", name |-> name \o DotKey]] =
          privateKeyToPem(issues[i].keys.privateKey)
    /\ disk[[dir |-> "keys", name |-> name \o DotPublicKey]] =
          publicKeyToPem(issues[i].keys.publicKey)

\* one key generation, one signing with the private key of its authority, a
\* write started to each of the three files
IssuesAfresh(i) ==
    /\ issues[i].keygens = 1
    /\ issues[i].signings = 1
    /\ issues[i].keys = KeyPair("generateServerCertificateKeys", <<run, i>>)
    /\ issues[i].cert.publicKey = issues[i].keys.publicKey
    /\ issues[i].cert.signedBy = opens[issues[i].ca].CAkeys.privateKey.pair
    /\ \A r \in Roles : issues[i].wr[r] \in {"pending", "ok", "fail"}

C7_BestEffortPersistence ==
    \A i \in Issues :
        Called(i) =>
            /\ issues[i].callbacks = 1
            /\ issues[i].cbArgs = << certificateToPem(issues[i].cert),
                                     privateKeyToPem(issues[i].keys.privateKey) >>
            /\ issues[i].keys = KeyPair("generateServerCertificateKeys", <<run, i>>)
            /\ issues[i].cert.publicKey = issues[i].keys.publicKey
            /\ \A r \in Roles : issues[i].wr[r] \in {"pending", "ok", "fail"}

\* the certificate write failed and the two key writes went on to succeed
C7_Witness ==
    \E i \in Issues :
        /\ Called(i)
        /\ issues[i].wr = [cert |-> "fail", private |-> "ok", public |-> "ok"]
        /\ issues[i].callbacks = 1

\* C8: concurrent requests for the same uncached host (both in flight, none of
\* the host's three files written yet) make one signing in all and hand the
\* callers the same certificate and key.
C8_SingleFlight ==
    \A i, j \in Issues :
        ( /\ i # j /\ Called(i) /\ Called(j)
          /\ issues[i].hosts[1] = issues[j].hosts[1]
          /\ InFlight(i) /\ InFlight(j)
          /\ \A f \in IssueFiles(i) : disk[f] = Absent ) =>
            /\ issues[i].cbArgs = issues[j].cbArgs
            /\ issues[i].signings + issues[j].signings = 1

\* C9: chain validity.  The issuer of every leaf certificate is the subject of
\* the root certificate of the authority that issued it, and its signature is
\* made by the private key of the public key in that root certificate.
C9_ChainValidity ==
    \A i \in Issues :
        Called(i) =>
            LET root == opens[issues[i].ca].CAcert IN
            /\ issues[i].cert.issuer = root.subject
            /\ issues[i].cert.signedBy = root.publicKey.pair

\* the parts of a text between its dots
RECURSIVE splitAtDots(_)
splitAtDots(s) ==
    IF s = <<>> THEN << <<>> >>
    ELSE LET rest == splitAtDots(Tail(s)) IN
         IF Head(s) = "." THEN << <<>> >> \o rest
         ELSE << <<Head(s)>> \o rest[1] >> \o Tail(rest)

digitValue(c) ==
    CASE c = "0" -> 0 [] c = "1" -> 1 [] c = "2" -> 2 [] c = "3" -> 3 [] c = "4" -> 4
      [] c = "5" -> 5 [] c = "6" -> 6 [] c = "7" -> 7 [] c = "8" -> 8 [] c = "9" -> 9

RECURSIVE decimalValue(_)
decimalValue(s) ==
    IF s = <<>> THEN 0
    ELSE 10 * decimalValue(SubSeq(s, 1, Len(s) - 1)) + digitValue(s[Len(s)])

isOctet(s) ==
    /\ Len(s) \in 1..3
    /\ \A n \in 1..Len(s) : s[n] \in Digits
    /\ decimalValue(s) <= 255

\* a dotted-decimal IP address: four numbers from 0 to 255 with dots between
isDottedDecimalIP(host) ==
    LET parts == splitAtDots(host) IN
    Len(parts) = 4 /\ \A n \in 1..4 : isOctet(parts[n])

\* C10: SAN correctness.  The SubjectAltName list of an issued certificate has
\* one entry per host name of the call, in the order of the call, an IP entry
\* (type 7) exactly for the host names that are dotted-decimal IP addresses and
\* a DNS entry (type 2) for every other one.
C10_SanCorrectness ==
    \A i \in Issues :
        Called(i) =>
            LET hosts == issues[i].hosts
                names == issues[i].cert.extensions.altNames
            IN /\ Len(names) = Len(hosts)
               /\ \A n \in 1..Len(hosts) :
                     names[n] = IF isDottedDecimalIP(hosts[n])
                                THEN [type |-> 7, ip |-> hosts[n]]
                                ELSE [type |-> 2, value |-> hosts[n]]

\* the number of a day, counting the days of the calendar
daysBeforeYear(y) ==
    365 * (y - 1) + ((y - 1) \div 4) - ((y - 1) \div 100) + ((y - 1) \div 400)

RECURSIVE daysBeforeMonth(_, _)
daysBeforeMonth(y, m) ==
    IF m = 1 THEN 0 ELSE daysBeforeMonth(y, m - 1) + daysInMonth(y, m - 1)

dayNumber(t) == daysBeforeYear(t.year) + daysBeforeMonth(t.year, t.month) + t.date

\* notBefore is the day before the day of issuance, notAfter is 364 to 366
\* days after notBefore
WindowOfAYear(validity, now) ==
    /\ dayNumber(validity.notBefore) = dayNumber(now) - 1
    /\ dayNumber(validity.notAfter) - dayNumber(validity.notBefore) \in 364..366

\* C11: validity window.  On every day of issuance (1 January, the last day of
\* a month and 29 February among them) the root certificate and every leaf
\* certificate have notBefore one day before the day of issuance and notAfter
\* 364 to 366 days after notBefore.
C11_ValidityWindow ==
    /\ \A p \in Opens :
          opens[p].pc = "generateCA" => WindowOfAYear(opens[p].CAcert.validity, clock)
    /\ \A i \in Issues :
          Called(i) => WindowOfAYear(issues[i].cert.validity, clock)

\* s is h with every '*' replaced by '_'
Substituted(h, s) ==
    /\ Len(s) = Len(h)
    /\ \A n \in 1..Len(h) : s[n] = IF h[n] = "*" THEN "_" ELSE h[n]

\* certs/<s>.pem, keys/<s>.key and keys/<s>.public.key
NamedAfter(s) ==
    [cert |-> [dir |-> "certs", name |-> s \o <<".", "p", "e", "m">>],
     private |-> [dir |-> "keys", name |-> s \o <<".", "k", "e", "y">>],
     public |-> [dir |-> "keys",
                 name |-> s \o <<".", "p", "u", "b", "l", "i", "c", ".", "k", "e", "y">>]]

\* the certificate names the hosts as they were given
CarriesHosts(cert, hosts) ==
    LET names == cert.extensions.altNames IN
    /\ cert.subject[1] = [name |-> "commonName", value |-> hosts[1]]
    /\ Len(names) = Len(hosts)
    /\ \A n \in 1..Len(hosts) :
          \/ names[n].type = 2 /\ names[n].value = hosts[n]
          \/ names[n].type = 7 /\ names[n].ip = hosts[n]

\* C12: filesystem mapping.  For every list of host names with main host h, the
\* steps of an issuance (the call and the completions of its writes) change no
\* file but certs/<s>.pem, keys/<s>.key and keys/<s>.public.key, where s is h
\* with every '*' replaced by '_' and holds no '*'; a write that succeeds puts
\* its text in the file of its role; and the commonName and the SubjectAltName
\* entries of the certificate carry the host names as given.
C12_FilesystemMapping ==
    [][\A i \in Issues :
          (issues'[i] # issues[i] /\ Called(i)') =>
              LET h == issues'[i].hosts[1]
                  s == issues'[i].certFileName
              IN /\ Substituted(h, s)
                 /\ \A n \in 1..Len(s) : s[n] # "*"
                 /\ \A f \in DOMAIN disk :
                       disk'[f] # disk[f] => \E r \in Roles : f = NamedAfter(s)[r]
                 /\ \A r \in Roles :
                       (issues[i].wr[r] = "pending" /\ issues'[i].wr[r] = "ok") =>
                           disk'[NamedAfter(s)[r]] = leafText(issues'[i], r)
                 /\ CarriesHosts(issues'[i].cert, issues'[i].hosts)]_vars

\* the three files of a main host with two '*' have been written
C12_Witness ==
    \E i \in Issues :
        /\ Called(i) /\ AllOk(i)
        /\ issues[i].hosts[1] = <<"*", "*">>
        /\ disk[[dir |-> "certs", name |-> <<"_", "_", ".", "p", "e", "m">>]] =
              certificateToPem(issues[i].cert)

\* C13: two issuances for the same main host overlap (the second is called
\* while the first is in flight).  Once the six writes have completed with
\* success, the three files of the host come from one and the same issuance, so
\* the public key of the certificate on disk belongs to the private key on disk.
C13_LastWriterWins ==
    \A i, j \in Issues :
        ( /\ i < j /\ Called(i) /\ Called(j)
          /\ issues[i].hosts[1] = issues[j].hosts[1]
          /\ ~history[j].alone
          /\ AllOk(i) /\ AllOk(j) ) =>
            OwnFiles(i) \/ OwnFiles(j)

\* C14: issuance for different main hosts is independent.  No completion of a
\* write of an issuance for main host A changes one of the three files of an
\* issuance for another main host B.
C14_HostsIndependent ==
    [][\A i, j \in Issues :
          ( /\ i # j /\ Called(i) /\ Called(j)
            /\ issues[i].hosts[1] # issues[j].hosts[1]
            /\ issues'[i] # issues[i] ) =>
              \A f \in IssueFiles(j) : disk'[f] = disk[f]]_vars

\* an authority as the data model has it: a self-signed certificate of a
\* certificate authority, and the key pair whose public key is in it
WellFormed(ca) ==
    /\ ca.CAcert.subject = ca.CAcert.issuer
    /\ ca.CAcert.extensions.cA
    /\ ca.CAcert.signedBy = ca.CAcert.publicKey.pair
    /\ ca.CAkeys.publicKey = ca.CAcert.publicKey
    /\ ca.CAkeys.privateKey.pair = ca.CAcert.publicKey.pair

\* C15: every authority that a create call delivers without error is well
\* formed, after any create calls (two overlapping on an empty base directory
\* among them), failed writes and restarts.
C15_DeliveredAuthorityWellFormed ==
    \A p \in Opens : opens[p].callback = "ok" => WellFormed(opens[p])

\* C16: leaf issuance leaves the root files alone.  No step of an issuance (the
\* call or the completion of one of its writes) changes certs/ca.pem,
\* keys/ca.private.key or keys/ca.public.key, whatever the host names are.
C16_IssuanceLeavesRootFiles ==
    [][\A i \in Issues :
          issues'[i] # issues[i] =>
              /\ disk'[[dir |-> "certs", name |-> <<"c", "a", ".", "p", "e", "m">>]] =
                    disk[[dir |-> "certs", name |-> <<"c", "a", ".", "p", "e", "m">>]]
              /\ disk'[RootFile("private")] = disk[RootFile("private")]
              /\ disk'[RootFile("public")] = disk[RootFile("public")]]_vars

\* C17: generateServerCertificateKeys called with one host name h as a plain
\* string completes as it does for the list [h]: its callback is called once
\* and the certificate has commonName h and the one SubjectAltName entry for h.
C17_StringHostAccepted ==
    \A i \in Issues :
        (issues[i].pc # "idle" /\ ~issues[i].isArray) =>
            /\ issues[i].pc = "called"
            /\ issues[i].callbacks = 1
            /\ CarriesHosts(issues[i].cert, <<issues[i].mainHost>>)

====
